---- MODULE Spec2Model ----
(***************************************************************************)
(* A state-machine model of examples/bubble_sort.rs: the in-place bubble   *)
(* sort over a mutable slice of i32, executed one loop step at a time.     *)
(* Positions are zero-based as in the source; At/swap translate them to    *)
(* TLA+'s one-based sequences.                                             *)
(***************************************************************************)
EXTENDS Integers, Sequences, FiniteSets

\* ------------------------------------------------------------------ bounds
\* Longest generated input slice.
MaxLen == 4
\* Generated element values range over -1 .. MaxVal (signed, with duplicates).
MaxVal == 1
\* How many times in a row the caller invokes bubble_sort on the same slice.
MaxCalls == 2
\* Width of the modelled usize (the real one is 64 bits; only the fact that a
\* wrapped value is huge compared with any slice length matters).
UsizeBits == 16

Values == (0 - 1)..MaxVal

RECURSIVE Pow2(_)
Pow2(k) == IF k = 0 THEN 1 ELSE 2 * Pow2(k - 1)

UsizeModulus == Pow2(UsizeBits)

RECURSIVE SeqsUpTo(_)
SeqsUpTo(k) ==
    IF k = 0 THEN {<<>>}
    ELSE LET shorter == SeqsUpTo(k - 1)
         IN shorter \cup {Append(s, v) : s \in {t \in shorter : Len(t) = k - 1}, v \in Values}

\* ------------------------------------------------- the program's literals
\* main: let mut numbers = vec![64, 34, 25, 12, 22, 11, 90];
main_numbers == <<64, 34, 25, 12, 22, 11, 90>>
\* tests::test_bubble_sort: let mut arr = vec![5, 2, 8, 1, 9];
test_arr == <<5, 2, 8, 1, 9>>

\* Every slice the model passes to bubble_sort.
Inputs == SeqsUpTo(MaxLen) \cup {main_numbers, test_arr}

\* ----------------------------------------------------------- pure helpers
\* arr[k] with a zero-based k.
At(a, k) == a[k + 1]

\* A buggy exchange that copies instead of exchanging.
swap_overwrite(a, x, y) == [a EXCEPT ![x + 1] = a[y + 1]]

\* arr.swap(x, y)
swap(a, x, y) == [a EXCEPT ![x + 1] = a[y + 1], ![y + 1] = a[x + 1]]

\* Buggy comparisons: non-strict, and reversed.
ShouldSwapGe(l, r) == l >= r
ShouldSwapLt(l, r) == l < r

\* if arr[j] > arr[j + 1]
ShouldSwap(l, r) == l > r

\* Buggy outer ranges: one value too many (0..=n), one too few (0..n-1).
OuterRangeInclusive(len) == 0..len
OuterRangeExclusive(len) == 0..(len - 2)

\* for i in 0..n : the values the outer iterator yields.
OuterRange(len) == 0..(len - 1)

\* Buggy inner bounds: one too long, one too short.
InnerBoundLong(len, k) == len - k
InnerBoundShort(len, k) == len - k - 2

\* n - i - 1 as a mathematical integer (before usize arithmetic is applied).
InnerBound(len, k) == len - k - 1

\* A buggy first position of the inner scan.
InnerStartOne == 0 + 1

\* for j in 0.. : the first value of the inner iterator.
InnerStart == 0

\* --------------------------------------------------------------- the state
VARIABLES
    arr,      \* the slice borrowed mutably by bubble_sort
    n,        \* let n = arr.len()
    i,        \* next value of the outer iterator = passes completed
    j,        \* next value of the inner iterator
    bound,    \* the evaluated end of the inner range, n - i - 1
    pc,       \* "call", "outer", "inner", "done", "panic"
    fault,    \* "none", "subtract_overflow", "wrapped", "index_out_of_bounds"
    call,     \* which invocation on this slice is running (1 ..)
    input,    \* ghost: the slice contents when the current invocation began
    tags,     \* ghost: tags[p] = position at call time of the element now at p
    passes,   \* ghost: outer-loop bodies entered in this invocation
    cmps,     \* ghost: the compared pairs <<i, j>> of this invocation, in order
    swaps     \* ghost: swaps performed in this invocation

vars == <<arr, n, i, j, bound, pc, fault, call, input, tags, passes, cmps, swaps>>

Identity(len) == [p \in 1..len |-> p - 1]

Init ==
    /\ arr \in Inputs
    /\ input = arr
    /\ tags = Identity(Len(arr))
    /\ n = 0
    /\ i = 0
    /\ j = 0
    /\ bound = 0
    /\ pc = "call"
    /\ fault = "none"
    /\ call = 1
    /\ passes = 0
    /\ cmps = <<>>
    /\ swaps = 0

\* fn bubble_sort(arr: &mut [i32]) { let n = arr.len(); ... the outer iterator
\* is created at 0.
Enter ==
    /\ pc = "call"
    /\ n' = Len(arr)
    /\ i' = 0
    /\ pc' = "outer"
    /\ UNCHANGED <<arr, j, bound, fault, call, input, tags, passes, cmps, swaps>>

\* The outer iterator yields i; the inner range 0..n - i - 1 is evaluated once.
\* usize subtraction below zero panics when overflow checks are on and wraps
\* when they are off: both builds are possible outcomes.
OuterStep ==
    /\ pc = "outer"
    /\ i \in OuterRange(n)
    /\ passes' = passes + 1
    /\ j' = InnerStart
    /\ \E overflow_checks \in BOOLEAN :
         LET raw == InnerBound(n, i)
         IN IF raw >= 0
            THEN /\ bound' = raw
                 /\ pc' = "inner"
                 /\ fault' = fault
            ELSE IF overflow_checks
            THEN /\ bound' = bound
                 /\ pc' = "panic"
                 /\ fault' = "subtract_overflow"
            ELSE /\ bound' = raw % UsizeModulus
                 /\ pc' = "inner"
                 /\ fault' = "wrapped"
    /\ UNCHANGED <<arr, n, i, call, input, tags, cmps, swaps>>

\* The outer iterator is exhausted: bubble_sort returns.
OuterExit ==
    /\ pc = "outer"
    /\ i \notin OuterRange(n)
    /\ pc' = "done"
    /\ UNCHANGED <<arr, n, i, j, bound, fault, call, input, tags, passes, cmps, swaps>>

\* One inner iteration: the bounds-checked reads arr[j], arr[j + 1], the
\* comparison and, when it says so, arr.swap(j, j + 1).
InnerStep ==
    /\ pc = "inner"
    /\ j < bound
    /\ IF j + 1 >= Len(arr)
       THEN /\ pc' = "panic"
            /\ fault' = "index_out_of_bounds"
            /\ UNCHANGED <<arr, tags, j, cmps, swaps>>
       ELSE /\ cmps' = Append(cmps, <<i, j>>)
            /\ IF ShouldSwap(At(arr, j), At(arr, j + 1))
               THEN /\ arr' = swap(arr, j, j + 1)
                    /\ tags' = swap(tags, j, j + 1)
                    /\ swaps' = swaps + 1
               ELSE UNCHANGED <<arr, tags, swaps>>
            /\ j' = j + 1
            /\ UNCHANGED <<pc, fault>>
    /\ UNCHANGED <<n, i, bound, call, input, passes>>

\* The inner iterator is exhausted: pass i is over.
InnerExit ==
    /\ pc = "inner"
    /\ j >= bound
    /\ i' = i + 1
    /\ pc' = "outer"
    /\ UNCHANGED <<arr, n, j, bound, fault, call, input, tags, passes, cmps, swaps>>

\* The caller sorts the slice it just got back once more.
Resort ==
    /\ pc = "done"
    /\ call < MaxCalls
    /\ call' = call + 1
    /\ input' = arr
    /\ tags' = Identity(Len(arr))
    /\ passes' = 0
    /\ cmps' = <<>>
    /\ swaps' = 0
    /\ pc' = "call"
    /\ UNCHANGED <<arr, n, i, j, bound, fault>>

\* The steps of bubble_sort itself.
Run == Enter \/ OuterStep \/ OuterExit \/ InnerStep \/ InnerExit

Next == Enter \/ OuterStep \/ OuterExit \/ InnerStep \/ InnerExit \/ Resort

Spec == Init /\ [][Next]_vars

\* A running invocation keeps taking steps: the routine runs to completion.
FairSpec == Spec /\ WF_vars(Run)

\* ------------------------------------------------- vocabulary of the claims
Sorted(s) == \A p \in 1..(Len(s) - 1) : s[p] <= s[p + 1]

Count(s, v) == Cardinality({p \in 1..Len(s) : s[p] = v})

Elems(s) == {s[p] : p \in 1..Len(s)}

SameMultiset(s, t) ==
    /\ Len(s) = Len(t)
    /\ \A v \in Elems(s) \cup Elems(t) : Count(s, v) = Count(t, v)

\* Reference ascending sort: insertion of each element into a sorted prefix.
RECURSIVE InsertSorted(_, _)
InsertSorted(s, v) ==
    IF s = <<>> THEN <<v>>
    ELSE IF v < Head(s) THEN <<v>> \o s
    ELSE <<Head(s)>> \o InsertSorted(Tail(s), v)

RECURSIVE ReferenceSort(_)
ReferenceSort(s) ==
    IF s = <<>> THEN <<>>
    ELSE InsertSorted(ReferenceSort(SubSeq(s, 1, Len(s) - 1)), s[Len(s)])

\* <<k, 0>>, <<k, 1>>, ..., <<k, last>>
RECURSIVE PairsOfPass(_, _)
PairsOfPass(k, last) ==
    IF last < 0 THEN <<>> ELSE Append(PairsOfPass(k, last - 1), <<k, last>>)

\* The pairs of passes 0 .. k of a slice of length len: pass p scans
\* j = 0 .. len - p - 2.
RECURSIVE PairsUpToPass(_, _)
PairsUpToPass(len, k) ==
    IF k < 0 THEN <<>>
    ELSE PairsUpToPass(len, k - 1) \o PairsOfPass(k, len - k - 2)

IsPrefix(s, t) == Len(s) <= Len(t) /\ s = SubSeq(t, 1, Len(s))

\* ---------------------------------------------------------------- claims

\* C1: when bubble_sort returns, the slice is in ascending order: every
\* adjacent pair has left <= right, for every input length and values.
C1_Sortedness == pc = "done" => Sorted(arr)

C1_Witness ==
    /\ pc = "done"
    /\ call = 1
    /\ Len(input) = MaxLen
    /\ ~Sorted(input)
    /\ \E p \in 1..Len(input), q \in 1..Len(input) : p # q /\ input[p] = input[q]

\* C2: when bubble_sort returns, the slice has the length and the multiset of
\* values it had at the call: nothing inserted, deleted or altered.
C2_Permutation == pc = "done" => SameMultiset(arr, input)

C2_Witness ==
    /\ pc = "done"
    /\ swaps >= 3
    /\ arr # input
    /\ \E v \in Elems(input) : Count(input, v) = 2

\* C3: when bubble_sort returns, the slice equals the reference ascending sort
\* of the input position by position; [5,2,8,1,9] gives [1,2,5,8,9], the
\* seven-element sample gives [11,12,22,25,34,64,90], and [] stays [].
C3_Functional ==
    pc = "done" =>
        /\ arr = ReferenceSort(input)
        /\ (input = test_arr => arr = <<1, 2, 5, 8, 9>>)
        /\ (input = main_numbers => arr = <<11, 12, 22, 25, 34, 64, 90>>)
        /\ (input = <<>> => arr = <<>>)

C3_Witness == pc = "done" /\ input = main_numbers /\ arr = <<11, 12, 22, 25, 34, 64, 90>>

\* C4: no step reads or writes outside [0, N), and n - i - 1 is only ever
\* evaluated with i < n (never for N = 0), so no panic and no wraparound.
C4_InBounds ==
    /\ fault = "none"
    /\ pc # "panic"
    /\ (n = 0 => passes = 0)
    /\ (pc = "inner" => i < n /\ bound >= 0 /\ bound < UsizeModulus)
    /\ (pc = "inner" /\ j < bound => 0 <= j /\ j + 1 < Len(arr))
    /\ \A p \in 1..Len(cmps) : 0 <= cmps[p][2] /\ cmps[p][2] + 1 < Len(arr)

C4_Witness == pc = "inner" /\ n >= 2 /\ i = n - 1 /\ bound = 0 /\ Len(cmps) > 0

\* Stability at return, with tags as the input positions; and the strict swap test.
C5_StableAtReturn ==
    pc = "done" =>
        /\ \A p \in 1..Len(arr) : arr[p] = input[tags[p] + 1]
        /\ \A p \in 1..Len(arr), q \in 1..Len(arr) :
              (p < q /\ arr[p] = arr[q]) => tags[p] < tags[q]

C5_StrictSwap == tags' # tags /\ pc = "inner" => At(arr, j) > At(arr, j + 1)

\* C5: a swap happens only when the left value is strictly greater than the
\* right one, and at return any two elements of equal value stand in the
\* relative order they had in the input (tags are the input positions).
C5_Stability == [](C5_StableAtReturn) /\ [][C5_StrictSwap]_vars

C5_Witness ==
    /\ pc = "done"
    /\ swaps > 0
    /\ \E p \in 1..Len(arr), q \in 1..Len(arr) :
          p < q /\ arr[p] = arr[q] /\ tags[p] + 1 # p /\ tags[q] + 1 # q

\* C6: on an ascending input bubble_sort swaps nothing and changes no
\* position; sorting the result of a sort again returns the same slice.
C6_Idempotent ==
    /\ (Sorted(input) => swaps = 0 /\ arr = input)
    /\ (call >= 2 /\ pc = "done" => arr = input)

C6_Witness ==
    /\ pc = "done"
    /\ call = 2
    /\ arr = <<1, 2, 5, 8, 9>>
    /\ Len(cmps) = 10

\* C7: on a slice of length 0 or 1 bubble_sort compares nothing, swaps
\* nothing, raises no error and returns the slice unchanged.
C7_Tiny ==
    Len(input) <= 1 =>
        /\ cmps = <<>>
        /\ swaps = 0
        /\ fault = "none"
        /\ pc # "panic"
        /\ arr = input

C7_Witness == pc = "done" /\ Len(input) = 1 /\ passes = 1 /\ call = 1

\* A rank of the routine's control state, and the step that lowers it.
C8_Rank ==
    CASE pc = "call" -> (Len(arr) + 1) * (Len(arr) + 2)
      [] pc = "outer" -> (n - i) * (n + 2) + n + 1
      [] pc = "inner" -> (n - i) * (n + 2) + (bound - j)
      [] OTHER -> 0

C8_Progress == Run => (C8_Rank' < C8_Rank /\ C8_Rank' >= 0 /\ pc' # "panic")

\* C8: every invocation reaches its return point: each step of the routine
\* lowers a natural-number rank (both loop counters advance), no step fails,
\* and a call is always followed by the return.
C8_Terminates ==
    /\ [][C8_Progress]_vars
    /\ ((pc = "call") ~> (pc = "done"))

C8_Witness == pc = "done" /\ input = main_numbers /\ call = 1 /\ Len(cmps) = 21

\* C9 as stated: for N >= 1 the outer loop runs N - 1 passes, i = 0 .. N - 2,
\* pass i comparing (j, j+1) for j = 0 .. N - i - 2 in increasing j.
C9_Original ==
    pc = "done" /\ n >= 1 =>
        /\ passes = n - 1
        /\ cmps = PairsUpToPass(n, n - 2)

\* C9 amended: for N >= 1 the outer loop body runs for i = 0 .. N - 1 (N
\* passes), pass i comparing exactly (j, j+1) for j = 0 .. N - i - 2 in
\* increasing j, so the last pass compares nothing; the passes and the
\* compared positions depend on N alone, not on values or swaps.
C9_Passes ==
    /\ IsPrefix(cmps, PairsUpToPass(Len(input), Len(input) - 1))
    /\ (pc = "inner" => cmps = PairsUpToPass(n, i - 1) \o PairsOfPass(i, j - 1))
    /\ (pc = "inner" => passes = i + 1 /\ bound = n - i - 1)
    /\ (pc = "done" /\ n >= 1 =>
            /\ passes = n
            /\ cmps = PairsUpToPass(n, n - 2)
            /\ Len(cmps) = (n * (n - 1)) \div 2)

C9_Witness == pc = "inner" /\ n >= 3 /\ i = n - 1 /\ passes = n /\ swaps = 0

\* The tail after i completed passes, and its preservation by every step.
C10_TailSettled ==
    pc \in {"outer", "inner", "done"} /\ i <= n =>
        /\ \A p \in (n - i + 1)..n : arr[p] = ReferenceSort(input)[p]
        /\ (i >= 1 => \A p \in 1..(n - i) : arr[p] <= arr[n - i + 1])

C10_TailKept ==
    pc \in {"outer", "inner"} => \A p \in (n - i + 1)..n : arr'[p] = arr[p]

\* C10: after i + 1 passes the last i + 1 positions hold the i + 1 largest
\* input values in ascending order, every value before them is <= the first
\* of them, and no later step of the invocation changes those positions.
C10_PassInvariant == [](C10_TailSettled) /\ [][C10_TailKept]_vars

C10_Witness ==
    /\ pc = "outer"
    /\ i = 2
    /\ n = MaxLen
    /\ swaps > 0
    /\ ~Sorted(arr)

====
